---- MODULE Spec2Model ----
(***************************************************************************)
(* A model of the NationBuilder API client's endpoint decorators:          *)
(*   - handle_pagination (endpoints/decorators.py), a generator function   *)
(*     that follows the `next` link of each page,                          *)
(*   - NationBuilderClient.make_request (nationbuilder_api/__init__.py),   *)
(*     which binds the keyword arguments of an endpoint method,            *)
(*   - handle_resp_proc and the response processors (resp_procs.py).       *)
(*                                                                         *)
(* Spec      : one paginated call of Tags.__call__ and its consumer.       *)
(* SpecProc  : one call through handle_resp_proc over a given result.      *)
(* SpecFilter: filter_resource applied to a resource, once and twice.      *)
(* SpecGet   : one call of People.get, or of make_request, end to end.     *)
(* SpecTask  : one execution of the create_discount task, request by       *)
(*             request, against NationBuilder and Shopify.                 *)
(***************************************************************************)
EXTENDS Integers, Sequences, FiniteSets, TLC

\* The server stops offering a `next` link at page MaxPages.
MaxPages == 3

\* The longest list of responses the call under handle_resp_proc returns.
MaxBatch == 2

\* The longest list of processors passed as resp_proc.
MaxChain == 2

\* The largest amount, in cents, of a pending redemption or a capital
\* balance.
MaxAmount == 2

\* The longest list filter handed to filter_resource.
MaxFilterLen == 2

\* The person ids tasks are enqueued with.
MaxPersons == 2

\* The values an argument frozen by set_args takes are 1..MaxValues.
MaxValues == 2

\* The most calls of set_args on one class.
MaxSetArgs == 2

(***************************************************************************)
(* Values.  A keyword-argument value is a scalar string given by the       *)
(* caller (list = FALSE, one item) or a list of strings as parse_qs builds *)
(* it (list = TRUE).  An optional value is <<>> (absent, None) or <<v>>.   *)
(***************************************************************************)
Scalar(s) == [list |-> FALSE, items |-> <<s>>]

StrList(ss) == [list |-> TRUE, items |-> ss]

\* The query strings of the `next` links the server may put in a page body,
\* each as its sequence of <<name, value>> pairs.
NextLinks ==
    { << <<"token", "1">> >>,
      << <<"token", "2">>, <<"limit", "1">> >>,
      << <<"token", "">> >>,
      << <<"payload", "1">> >>,
      << <<"timeout", "1">> >> }

\* The keyword arguments a caller passes besides the control arguments.
CallerKwargs ==
    { [n \in {"limit"} |-> Scalar("0")],
      [n \in {"limit", "token"} |-> Scalar("0")] }

\* The values a caller gives max_resps: <<>> when it is not passed.
MaxRespsArgs == {<<>>} \cup { <<m>> : m \in 0..(MaxPages - 1) }

\* The values a caller gives yield_resps: <<>> when it is not passed.
YieldRespsArgs == {<<>>, <<TRUE>>}

VARIABLES
    \* ---- one call of a method decorated with handle_pagination ----
    pc,          \* position of the generator dec_f
    args,        \* the caller's arguments: [yield_resps, max_resps, kwargs]
    yield_resps, \* dec_f's local
    max_resps,   \* dec_f's local (non-streaming only)
    resps,       \* dec_f's local (non-streaming only)
    kwargs,      \* dec_f's keyword arguments, as mutated by the loop
    resp,        \* dec_f's local: the page held across a yield
    ret,         \* what the call expression dec_f(...) evaluated to
    stop,        \* the value the generator finished with (StopIteration.value)
    calls,       \* keyword arguments of every invocation of f, in order
    served,      \* the pages the server answered with, in order
    yielded,     \* the values the generator yielded, in order
    raised,      \* TRUE once an invocation of f has raised
    logged,      \* the levels of the records session.logger wrote
    \* ---- one call of a method decorated with handle_resp_proc ----
    p_pc,        \* position of handle_resp_proc's dec_f
    p_dflt,      \* resp_proc_dflt, the default the decorator was given
    p_kw,        \* the resp_proc keyword of the call: <<>> when not passed
    p_res,       \* the result of the underlying call f(self, ...)
    p_proc,      \* dec_f's local resp_proc
    p_out,       \* what dec_f returned
    p_applied,   \* the responses a processor was applied to, in order
    p_errors,    \* number of session.logger.error calls
    p_dec,       \* resource_name among the decorator's **resp_proc_args, or <<>>
    p_args,      \* resource_name in the decorator's resp_proc_args dict now
    p_meth,      \* the resource_name attribute of the method f, or <<>>
    p_endp,      \* the resource_name attribute of the endpoint, or <<>>
    p_callkw,    \* resource_name among the call's keywords, or <<>>
    p_fkw,       \* resource_name among the keywords f received, or <<>>
    p_trace,     \* the processor applications made: [proc, in, out]
    p_endp2,     \* the resource_name attribute of a later call's endpoint
    p_used2,     \* resource_name in resp_proc_args after the later call
    p_out2,      \* what dec_f returned to the later call
    \* ---- filter_resource applied to a resource ----
    f_pc,        \* "ready", "once" (filtered), "twice" (the result filtered again)
    f_resource,  \* the resource
    f_filter,    \* the filter
    f_out,       \* filter_resource(f_resource, f_filter)
    f_twice,     \* filter_resource(f_out, f_filter)
    \* ---- one call of People.get or of make_request ----
    g_pc,        \* "ready", "returned", "raised"
    g_id,        \* People.get's id argument, or <<>>
    g_email,     \* People.get's email argument, or <<>>
    g_kw,        \* the resp_proc keyword of the call: <<>> when not passed
    g_status,    \* the status the server answers with
    g_person,    \* the person P in the body {"person": P} of the answer
    g_req,       \* the request that reached the transport, or <<>>
    g_recv,      \* the response make_request returned to its caller, or <<>>
    g_trace,     \* the processor applications made: [proc, in, out]
    g_out,       \* the value returned to the caller, or the exception raised
    \* ---- one execution of create_discount(person_id) ----
    t_pc,          \* position of the execution
    t_person,      \* the person read by nb.people.get: <<[pending, capital]>>
    t_redemption,  \* the local redemption, in cents
    t_price_rule,  \* the local price_rule: <<id>>, or <<>> while unbound
    t_exc,         \* the call whose exception is propagating, or "none"
    t_pending0,    \* the pending field when the execution started
    nb_pending,    \* NationBuilder: the person's pending field, <<>> for None
    nb_capital,    \* NationBuilder: the person's capital balance, in cents
    nb_entries,    \* NationBuilder: the capital entries recorded, in cents
    shop_rules,    \* Shopify: the price rules in existence
    shop_codes,    \* Shopify: the price rules with a discount code attached
    \* ---- one enqueue of create_discount on the task queue ----
    q_person,      \* the person id the task was enqueued with
    q_retries,     \* request.retries: the retries made so far
    q_attempts,    \* the attempts started so far
    q_entered,     \* the attempts that acquired the lock and ran the body
    q_waited,      \* the attempts that found the lock held and waited
    q_hook,        \* the outcome of on_failure's request, "none" before it
    q_lock,        \* the redis locks: for each key "free", "task" or "other"
    o_pc,          \* another execution of create_discount: "idle", "locked"
    o_person,      \* the person id of that other execution
    \* ---- an endpoint class under Endpoint.set_args ----
    a_pc,          \* "ready", or "called" right after a method call
    a_attr,        \* the class attributes: [callable, frozen] for each method
    a_set,         \* the number of set_args calls made
    a_last,        \* for each name the value last given to set_args
    a_meth,        \* the method called
    a_kw,          \* the keywords of the call
    a_recv         \* the values the method's function received

pagVars == <<pc, args, yield_resps, max_resps, resps, kwargs, resp, ret, stop,
             calls, served, yielded, raised, logged>>

procVars ==
    <<p_pc, p_dflt, p_kw, p_res, p_proc, p_out, p_applied, p_errors,
      p_dec, p_args, p_meth, p_endp, p_callkw, p_fkw, p_trace,
      p_endp2, p_used2, p_out2>>

filtVars == <<f_pc, f_resource, f_filter, f_out, f_twice>>

getVars ==
    <<g_pc, g_id, g_email, g_kw, g_status, g_person, g_req, g_recv, g_trace,
      g_out>>

taskVars ==
    <<t_pc, t_person, t_redemption, t_price_rule, t_exc, t_pending0,
      nb_pending, nb_capital, nb_entries, shop_rules, shop_codes>>

queueVars ==
    <<q_person, q_retries, q_attempts, q_entered, q_waited, q_hook, q_lock,
      o_pc, o_person>>

argVars == <<a_pc, a_attr, a_set, a_last, a_meth, a_kw, a_recv>>

vars == <<pagVars, procVars, filtVars, getVars, taskVars, queueVars, argVars>>

\* What the actions of one part leave alone.
notPag == <<procVars, filtVars, getVars, taskVars, queueVars, argVars>>

notProc == <<pagVars, filtVars, getVars, taskVars, queueVars, argVars>>

notFilt == <<pagVars, procVars, getVars, taskVars, queueVars, argVars>>

notGet == <<pagVars, procVars, filtVars, taskVars, queueVars, argVars>>

notTask == <<pagVars, procVars, filtVars, getVars, queueVars, argVars>>

notQueue == <<pagVars, procVars, filtVars, getVars, argVars>>

notArgs ==
    <<pagVars, procVars, filtVars, getVars, taskVars, queueVars>>

(***************************************************************************)
(* urllib.parse.parse_qs as decorators.py:48 uses it: the values of each   *)
(* name are collected into a list, in order; a pair with a blank value is  *)
(* dropped (keep_blank_values is left at its default).                     *)
(***************************************************************************)
RECURSIVE ValuesOf(_, _)
ValuesOf(query, name) ==
    IF query = <<>> THEN <<>>
    ELSE (IF Head(query)[1] = name /\ Head(query)[2] # ""
             THEN <<Head(query)[2]>> ELSE <<>>)
         \o ValuesOf(Tail(query), name)

parse_qs(query) ==
    [n \in {query[i][1] : i \in {j \in 1..Len(query) : query[j][2] # ""}}
        |-> StrList(ValuesOf(query, n))]

\* dict.update
DictUpdate(d, u) ==
    [n \in DOMAIN d \cup DOMAIN u |-> IF n \in DOMAIN u THEN u[n] ELSE d[n]]

\* kwargs.update(parse_qs(urlparse(next_page).query))
UpdateKwargsReplace(kw, query) == parse_qs(query)

UpdateKwargs(kw, query) == DictUpdate(kw, parse_qs(query))

\* resp.json().get("next") is truthy
HasNextNever(r) == FALSE

HasNext(r) == r.next # <<>>

\* while yield_resps or len(resps) != max_resps
LoopContinues(yr, rs, mr) == yr \/ Len(rs) # mr

\* except Exception: if not yield_resps and resps: log, else: raise
SwallowsAlways(yr, rs) == ~yr

SwallowsException(yr, rs) == ~yr /\ rs # <<>>

(***************************************************************************)
(* NationBuilderClient.make_request as Tags.__call__ invokes it:           *)
(* make_request("get", "tags", **kwargs).  The names payload, headers and  *)
(* timeout bind to the parameters of that name, every other keyword        *)
(* argument lands in **params, the query parameters.                       *)
(***************************************************************************)
Named == {"payload", "headers", "timeout"}

Opt(kw, n) == IF n \in DOMAIN kw THEN <<kw[n]>> ELSE <<>>

\* float(timeout or self.timeout) raises TypeError on a list
BindingRaises(kw) == "timeout" \in DOMAIN kw /\ kw["timeout"].list

make_request(http_meth, url_path, kw) ==
    [http_meth |-> http_meth,
     url_path  |-> url_path,
     payload   |-> Opt(kw, "payload"),
     headers   |-> Opt(kw, "headers"),
     timeout   |-> Opt(kw, "timeout"),
     params    |-> [n \in DOMAIN kw \ Named |-> kw[n]]]

\* Tags.__call__: return self.session.make_request("get", "tags", **kwargs)
TagsCall(kw) == make_request("get", "tags", kw)

\* The requests that reached the transport: every invocation of f whose
\* arguments make_request could bind.
RECURSIVE RequestsOf(_)
RequestsOf(cs) ==
    IF cs = <<>> THEN <<>>
    ELSE (IF BindingRaises(Head(cs)) THEN <<>> ELSE <<TagsCall(Head(cs))>>)
         \o RequestsOf(Tail(cs))

Requests == RequestsOf(calls)

\* The pages the server may answer request number k with.
Pages(k) ==
    { [id |-> k, status |-> 200, next |-> nx] :
        nx \in {<<>>} \cup (IF k < MaxPages THEN { <<q>> : q \in NextLinks } ELSE {}) }

NoResp == [id |-> 0, status |-> 0, next |-> <<>>]

NoValue == [kind |-> "none", items |-> <<>>]

(***************************************************************************)
(* handle_pagination.dec_f                                                 *)
(***************************************************************************)
PagInit ==
    /\ pc = "ready"
    /\ args \in [yield_resps : YieldRespsArgs,
                 max_resps   : MaxRespsArgs,
                 kwargs      : CallerKwargs]
    /\ yield_resps = FALSE
    /\ max_resps = -1
    /\ resps = <<>>
    /\ kwargs = [n \in {} |-> Scalar("")]
    /\ resp = NoResp
    /\ ret = NoValue
    /\ stop = NoValue
    /\ calls = <<>>
    /\ served = <<>>
    /\ yielded = <<>>
    /\ raised = FALSE
    /\ logged = <<>>

(***************************************************************************)
(* JSON values: null, a string, a dict (a function from names to JSON      *)
(* values) or a list; t = "TypeError" stands for a raised TypeError.       *)
(***************************************************************************)
NoDict == [n \in {} |-> ""]

JNull == [t |-> "null", s |-> "", d |-> NoDict, l |-> <<>>]

JStr(x) == [t |-> "str", s |-> x, d |-> NoDict, l |-> <<>>]

JDict(f) == [t |-> "dict", s |-> "", d |-> f, l |-> <<>>]

JList(seq) == [t |-> "list", s |-> "", d |-> NoDict, l |-> seq]

JErr(e) == [t |-> e, s |-> "", d |-> NoDict, l |-> <<>>]

(***************************************************************************)
(* Resource filters (payload_filter's docstring): a plain attribute name,  *)
(* or a list whose entries are attribute names (leaf) and pairs of an      *)
(* attribute name and a list filter (sub).                                 *)
(***************************************************************************)
FNone == [t |-> "none", n |-> "", es |-> <<>>]

FName(n) == [t |-> "name", n |-> n, es |-> <<>>]

FList(es) == [t |-> "list", n |-> "", es |-> es]

Leaf(n) == [leaf |-> TRUE, n |-> n, sub |-> FNone]

Nest(n, sub) == [leaf |-> FALSE, n |-> n, sub |-> sub]

\* dict.get(name)
Get(resource, n) == IF n \in DOMAIN resource.d THEN resource.d[n] ELSE JNull

\* Line 43 calls handle_filter(attr[1]): one argument for the two parameters
\* (resource, filter), which raises TypeError before resource[attr[0]] is
\* evaluated.
handle_filter_call1(sub) == JErr("TypeError")

\* handle_filter: the loop over the entries, filtered_resource in acc.
RECURSIVE handle_filter_loop(_, _, _)
handle_filter_loop(resource, es, acc) ==
    IF es = <<>> THEN JDict(acc)
    ELSE IF Head(es).leaf
            THEN handle_filter_loop(resource, Tail(es),
                    [n \in DOMAIN acc \cup {Head(es).n} |->
                        IF n = Head(es).n THEN Get(resource, n) ELSE acc[n]])
            ELSE handle_filter_call1(Head(es).sub)

handle_filter(resource, filter) == handle_filter_loop(resource, filter.es, NoDict)

filter_resource(resource, filter) ==
    IF filter.t = "name" THEN Get(resource, filter.n)
    ELSE handle_filter(resource, filter)

\* The attributes of the resources, and the resources: every dict over some
\* of them; status is itself a resource.
Attrs == {"id", "name", "status"}

AttrValue(n) ==
    IF n = "status" THEN JDict([m \in {"name"} |-> JStr("done")])
    ELSE IF n = "id" THEN JStr("1") ELSE JStr("A")

Resources == { JDict([n \in D |-> AttrValue(n)]) : D \in SUBSET Attrs }

\* The entries of the list filters, and the filters.
FilterEntries ==
    {Leaf("id"), Leaf("name"), Nest("status", FList(<<Leaf("name")>>))}

RECURSIVE EntryLists(_)
EntryLists(n) ==
    IF n = 0 THEN {<<>>}
    ELSE LET shorter == EntryLists(n - 1)
         IN  shorter \cup
             { Append(es, e) : es \in { x \in shorter : Len(x) = n - 1 },
                               e \in FilterEntries }

Filters ==
    { FName(n) : n \in Attrs }
        \cup { FList(es) : es \in EntryLists(MaxFilterLen) \ {<<>>} }

FiltIdle ==
    /\ f_pc = "idle"
    /\ f_resource = JNull
    /\ f_filter = FNone
    /\ f_out = JNull
    /\ f_twice = JNull

FiltInit ==
    /\ f_pc = "ready"
    /\ f_resource \in Resources
    /\ f_filter \in Filters
    /\ f_out = JNull
    /\ f_twice = JNull

\* filter_resource(resource, filter)
ApplyFilter ==
    /\ f_pc = "ready"
    /\ f_pc' = "once"
    /\ f_out' = filter_resource(f_resource, f_filter)
    /\ UNCHANGED <<f_resource, f_filter, f_twice>>
    /\ UNCHANGED notFilt

\* filter_resource(filtered, filter), on the mapping a list filter gave
ApplyFilterAgain ==
    /\ f_pc = "once"
    /\ f_filter.t = "list"
    /\ f_out.t = "dict"
    /\ f_pc' = "twice"
    /\ f_twice' = filter_resource(f_out, f_filter)
    /\ UNCHANGED <<f_resource, f_filter, f_out>>
    /\ UNCHANGED notFilt

(***************************************************************************)
(* Response processing.  A value is a response (with its JSON body in      *)
(* data), a boolean, a list, a generator, a JSON value, None or a raised   *)
(* exception; id is the identity of the object.                            *)
(***************************************************************************)
Val(kind, id, status, b, items) ==
    [kind |-> kind, id |-> id, status |-> status, b |-> b, items |-> items,
     data |-> JNull]

RespV(id, status) == Val("resp", id, status, FALSE, <<>>)

RespB(id, status, body) == [RespV(id, status) EXCEPT !.data = body]

BoolV(b) == Val("bool", 0, 0, b, <<>>)

ListV(id, items) == Val("list", id, 0, FALSE, items)

\* The generator a call of a paginated method gives; items are the pages
\* the server would serve were it ever iterated.
GeneratorV(pages) == Val("generator", 1, 0, FALSE, pages)

JsonV(j) == [Val("json", 0, 0, FALSE, <<>>) EXCEPT !.data = j]

NoneV == Val("None", 0, 0, FALSE, <<>>)

TypeErrorV == Val("TypeError", 0, 0, FALSE, <<>>)

AttributeErrorV == Val("AttributeError", 0, 0, FALSE, <<>>)

IsError(v) == v.kind \in {"TypeError", "AttributeError"}

\* The statuses of the responses a call may hand to handle_resp_proc.
Statuses == {200, 404}

\* requests.Response.__bool__ is Response.ok: no 4xx or 5xx status.
RespOk(r) == ~(400 <= r.status /\ r.status < 600)

\* bool(j) of a JSON value
JTruthy(j) ==
    CASE j.t = "str" -> j.s # ""
      [] j.t = "dict" -> DOMAIN j.d # {}
      [] j.t = "list" -> j.l # <<>>
      [] OTHER -> FALSE

\* bool(v)
Truthy(v) ==
    CASE v.kind = "resp" -> RespOk(v)
      [] v.kind = "bool" -> v.b
      [] v.kind = "list" -> v.items # <<>>
      [] v.kind = "generator" -> TRUE
      [] v.kind = "json" -> JTruthy(v.data)
      [] OTHER -> FALSE

\* resp_bool: return bool(resp) or resp
resp_boolAlwaysBool(r) == BoolV(Truthy(r))

resp_bool(r) == IF Truthy(r) THEN BoolV(TRUE) ELSE r

\* check_for_status(200): resp.status_code in status
check_for_status(r) == BoolV(r.status \in {200})

\* The value of a filtering: the JSON value, or the TypeError it raised.
FromJ(j) == IF j.t = "TypeError" THEN TypeErrorV ELSE JsonV(j)

\* [filter_resource(r, filter) for r in resource]
RECURSIVE FilterEach(_, _, _)
FilterEachNext(rs, filter, acc, j) ==
    IF j.t = "TypeError" THEN j
    ELSE FilterEach(Tail(rs), filter, Append(acc, j))

FilterEach(rs, filter, acc) ==
    IF rs = <<>> THEN JList(acc)
    ELSE FilterEachNext(rs, filter, acc, filter_resource(Head(rs), filter))

\* The function f that payload_filter(filter, ...) returns, called with
\* resource_name = rn (<<>>: None).  resp.json() needs a response;
\* payload.get needs a dict.
FilterPayload(resource, filter) ==
    IF JTruthy(resource) /\ filter.t # "none"
       THEN IF resource.t = "list"
               THEN FromJ(FilterEach(resource.l, filter, <<>>))
               ELSE FromJ(filter_resource(resource, filter))
       ELSE JsonV(resource)

payload_filter_f(r, filter, rn) ==
    IF r.kind # "resp" \/ r.data.t # "dict" THEN AttributeErrorV
    ELSE FilterPayload(IF rn # <<>> /\ rn[1] \in DOMAIN r.data.d
                          THEN r.data.d[rn[1]] ELSE r.data,
                       filter)

(***************************************************************************)
(* A processor: the function (fn), the filter of payload_filter, and the   *)
(* resource_name payload_filter bound with partial (<<>>: none, then the   *)
(* processor is a plain function).                                         *)
(***************************************************************************)
Proc(fn, filter, bound) == [fn |-> fn, filter |-> filter, bound |-> bound]

RespBoolProc == Proc("resp_bool", FNone, <<>>)

CheckForStatusProc == Proc("check_for_status", FNone, <<>>)

\* payload_filter(filter, resource_name)
payload_filter(filter, resource_name) == Proc("payload_filter", filter, resource_name)

\* rp(r, resource_name=rn)
CallProc(rp, r, rn) ==
    CASE rp.fn = "resp_bool" -> resp_bool(r)
      [] rp.fn = "check_for_status" ->
            IF r.kind = "resp" THEN check_for_status(r) ELSE AttributeErrorV
      [] rp.fn = "payload_filter" -> payload_filter_f(r, rp.filter, rn)

\* co_varnames[1:co_argcount] of the processor holds resource_name
AcceptsResourceName(rp) == rp.fn = "payload_filter"

\* handle_resp_proc_args(rp, resp_proc_args)(r), resp_proc_args holding
\* resource_name = args[1] or nothing.  With arguments and a partial
\* processor, `keys -= keywords` makes a set and `set & tuple` raises
\* TypeError.
handle_resp_proc_args(rp, r, resp_proc_args) ==
    IF resp_proc_args # <<>>
       THEN IF rp.bound # <<>> THEN TypeErrorV
            ELSE CallProc(rp, r, IF AcceptsResourceName(rp)
                                    THEN resp_proc_args ELSE <<>>)
       ELSE CallProc(rp, r, rp.bound)

(***************************************************************************)
(* A resp_proc value: None (not callable, no processors), one callable, or *)
(* a list of processors.                                                   *)
(***************************************************************************)
NoProc == [callable |-> FALSE, procs |-> <<>>]

One(rp) == [callable |-> TRUE, procs |-> <<rp>>]

Chain(rps) == [callable |-> FALSE, procs |-> rps]

\* bool(resp_proc)
ProcTruthyAlways(resp_proc) == TRUE

ProcTruthy(resp_proc) == resp_proc.callable \/ resp_proc.procs # <<>>

Step(rp, in, out) == [proc |-> rp, in |-> in, out |-> out]

\* resp = handle_resp_proc_args_partial(rp)(resp): the loop variable is
\* rebound to the processor's output.
NextInputSame(r, o) == r

NextInput(r, o) == o

\* for rp in resp_proc: resp = handle_resp_proc_args_partial(rp)(resp)
\* A processor that raises ends the loop.
RECURSIVE ProcLoop(_, _, _, _)
ProcLoopNext(rps, r, resp_proc_args, trace, o) ==
    IF IsError(o)
       THEN [out |-> o, trace |-> Append(trace, Step(Head(rps), r, o))]
       ELSE ProcLoop(Tail(rps), NextInput(r, o), resp_proc_args,
                     Append(trace, Step(Head(rps), r, o)))

ProcLoop(rps, r, resp_proc_args, trace) ==
    IF rps = <<>> THEN [out |-> r, trace |-> trace]
    ELSE ProcLoopNext(rps, r, resp_proc_args, trace,
                      handle_resp_proc_args(Head(rps), r, resp_proc_args))

\* proc_resp: the value (out) and the applications made (trace)
proc_resp(r, resp_proc, resp_proc_args) ==
    IF resp_proc.callable
       THEN ProcLoop(<<resp_proc.procs[1]>>, r, resp_proc_args, <<>>)
       ELSE ProcLoop(resp_proc.procs, r, resp_proc_args, <<>>)

\* all(res)
AnyOk(items) == \E i \in 1..Len(items) : Truthy(items[i])

AllOk(items) == \A i \in 1..Len(items) : Truthy(items[i])

\* The names of a set, in a sequence.
RECURSIVE SeqOf(_)
SeqOf(S) == IF S = {} THEN <<>>
            ELSE LET x == CHOOSE y \in S : TRUE IN <<x>> \o SeqOf(S \ {x})

\* What `resps += v` extends resps with: the items of a list, the keys of
\* a dict (the dicts met here have one key); other values are not iterable.
Iterable(v) ==
    \/ v.kind = "list"
    \/ v.kind = "json" /\ v.data.t \in {"list", "dict"}

Elements(v) ==
    IF v.kind = "list" THEN v.items
    ELSE IF v.data.t = "list"
            THEN [i \in 1..Len(v.data.l) |-> JsonV(v.data.l[i])]
            ELSE LET ks == SeqOf(DOMAIN v.data.d)
                 IN  [i \in 1..Len(ks) |-> JsonV(JStr(ks[i]))]

\* for resp in res: resps += proc_resp_partial(resp)
\* += raises TypeError when the processed value is not iterable, and a
\* processor that raises ends the loop: either way after the processor was
\* applied to that element.
RECURSIVE Flatten(_, _, _, _, _, _)
FlattenNext(items, resp_proc, resp_proc_args, acc, applied, trace, p) ==
    IF IsError(p.out)
       THEN [out |-> p.out, applied |-> applied, trace |-> trace \o p.trace]
       ELSE IF Iterable(p.out)
               THEN Flatten(Tail(items), resp_proc, resp_proc_args,
                            acc \o Elements(p.out), applied, trace \o p.trace)
               ELSE [out |-> TypeErrorV, applied |-> applied,
                     trace |-> trace \o p.trace]

Flatten(items, resp_proc, resp_proc_args, acc, applied, trace) ==
    IF items = <<>>
        THEN [out |-> ListV(2, acc), applied |-> applied, trace |-> trace]
        ELSE FlattenNext(items, resp_proc, resp_proc_args, acc,
                         Append(applied, Head(items)), trace,
                         proc_resp(Head(items), resp_proc, resp_proc_args))

\* for arg in RESP_PROC_ARGS - resp_proc_args.keys(): the default of the
\* outer getattr, getattr(self, arg), is evaluated first, so without the
\* endpoint attribute AttributeError is raised and passed over whether or
\* not the method has the attribute.
ResolveArgsGiven(resp_proc_args, meth, endp) == resp_proc_args

ResolveArgs(resp_proc_args, meth, endp) ==
    IF resp_proc_args # <<>> THEN resp_proc_args
    ELSE IF endp = <<>> THEN <<>>
    ELSE IF meth # <<>> THEN meth ELSE endp

\* handle_resp_proc.dec.dec_f, lines 85-117, over the result res of f: the
\* processor chosen, the value returned or raised, the responses handed to
\* proc_resp, the applications made, the errors logged and the decorator's
\* resp_proc_args dict afterwards.
Processed(resp_proc, res, applied, p, errors, ra) ==
    [proc |-> resp_proc, out |-> p.out, applied |-> applied,
     trace |-> p.trace, errors |-> errors, args |-> ra]

ProcessedList(resp_proc, f, ra) ==
    [proc |-> resp_proc, out |-> f.out, applied |-> f.applied,
     trace |-> f.trace, errors |-> 0, args |-> ra]

Unprocessed(res) == [out |-> res, trace |-> <<>>]

HandleRespProcWith(resp_proc, res, resp_proc_args, ra) ==
    IF ProcTruthy(resp_proc) /\ Truthy(res)
       THEN IF res.kind = "list"
               THEN IF AllOk(res.items)
                       THEN ProcessedList(resp_proc,
                                Flatten(res.items, resp_proc, ra, <<>>, <<>>, <<>>),
                                ra)
                       ELSE Processed(resp_proc, res, <<>>, Unprocessed(res), 1, ra)
               ELSE Processed(resp_proc, res, <<res>>,
                              proc_resp(res, resp_proc, ra), 0, ra)
       ELSE Processed(resp_proc, res, <<>>, Unprocessed(res), 0, resp_proc_args)

HandleRespProc(dflt, kw, res, resp_proc_args, meth, endp) ==
    HandleRespProcWith(IF kw = <<>> THEN dflt ELSE kw[1], res, resp_proc_args,
                       ResolveArgs(resp_proc_args, meth, endp))

\* The keys of a response body, one for each place a resource name can
\* come from, and the body of a single response.
BodyKeys == {"person", "results", "other", "capital", "signup"}

Person == JDict([n \in {"id", "name"} |-> AttrValue(n)])

Body ==
    JDict([k \in BodyKeys |->
              IF k = "person" THEN Person
              ELSE IF k = "results" THEN JList(<<JDict([n \in {"id"} |-> JStr("3")])>>)
              ELSE JDict([n \in {"id"} |-> JStr(k)])])

\* The body of the n-th page of a listing.
PageBody(n) ==
    JDict([k \in {"results"} |->
              JList(<<JDict([a \in {"id"} |-> JStr(ToString(n))])>>)])

\* The results the call under handle_resp_proc may give: one response, a
\* list (the object with identity 1) of up to MaxBatch responses, or the
\* generator of a paginated call.
RECURSIVE RespLists(_)
RespLists(n) ==
    IF n = 0 THEN {<<>>}
    ELSE LET shorter == RespLists(n - 1)
         IN  shorter \cup
             { Append(l, RespB(n, st, PageBody(n))) :
                   l \in { x \in shorter : Len(x) = n - 1 }, st \in Statuses }

ProcResults ==
    { RespB(1, st, Body) : st \in Statuses }
        \cup { ListV(1, l) : l \in RespLists(MaxBatch) }
        \cup { GeneratorV([k \in 1..n |-> RespB(k, 200, PageBody(k))]) :
                   n \in 1..MaxBatch }

\* The processors, and the resp_proc values built from them.
Processors ==
    {RespBoolProc, CheckForStatusProc, payload_filter(FNone, <<>>),
     payload_filter(FList(<<Leaf("id")>>), <<>>),
     payload_filter(FNone, <<"other">>)}

ChainProcs == {RespBoolProc, CheckForStatusProc, payload_filter(FNone, <<>>)}

RECURSIVE ProcLists(_)
ProcLists(n) ==
    IF n = 0 THEN {<<>>}
    ELSE LET shorter == ProcLists(n - 1)
         IN  shorter \cup
             { Append(l, rp) : l \in { x \in shorter : Len(x) = n - 1 },
                               rp \in ChainProcs }

RespProcs ==
    {NoProc} \cup { One(rp) : rp \in Processors }
        \cup { Chain(l) : l \in ProcLists(MaxChain) \ {<<>>} }

ProcIdle ==
    /\ p_pc = "idle"
    /\ p_dflt = NoProc
    /\ p_kw = <<>>
    /\ p_res = NoneV
    /\ p_dec = <<>>
    /\ p_args = <<>>
    /\ p_meth = <<>>
    /\ p_endp = <<>>
    /\ p_callkw = <<>>
    /\ p_fkw = <<>>
    /\ p_proc = NoProc
    /\ p_out = NoneV
    /\ p_applied = <<>>
    /\ p_trace = <<>>
    /\ p_errors = 0
    /\ p_endp2 = <<>>
    /\ p_used2 = <<>>
    /\ p_out2 = NoneV

PagIdle ==
    /\ pc = "idle"
    /\ args = [yield_resps |-> <<>>, max_resps |-> <<>>,
               kwargs |-> [n \in {} |-> Scalar("")]]
    /\ yield_resps = FALSE
    /\ max_resps = -1
    /\ resps = <<>>
    /\ kwargs = [n \in {} |-> Scalar("")]
    /\ resp = NoResp
    /\ ret = NoValue
    /\ stop = NoValue
    /\ calls = <<>>
    /\ served = <<>>
    /\ yielded = <<>>
    /\ raised = FALSE
    /\ logged = <<>>

ProcInit ==
    /\ p_pc = "ready"
    /\ p_dflt \in {NoProc, One(RespBoolProc), One(payload_filter(FNone, <<>>))}
    /\ p_kw \in {<<>>} \cup { <<rp>> : rp \in RespProcs }
    /\ p_res \in ProcResults
    /\ p_dec \in {<<>>, <<"capital">>}
    /\ p_args = p_dec
    /\ p_meth \in {<<>>, <<"results">>}
    /\ p_res.kind = "generator" => p_meth = <<"results">>
    /\ p_endp \in {<<>>, <<"person">>}
    /\ p_callkw \in {<<>>, <<"signup">>}
    /\ p_fkw = <<>>
    /\ p_proc = NoProc
    /\ p_out = NoneV
    /\ p_applied = <<>>
    /\ p_trace = <<>>
    /\ p_errors = 0
    /\ p_endp2 = <<>>
    /\ p_used2 = <<>>
    /\ p_out2 = NoneV

\* handle_resp_proc.dec.dec_f, lines 84-117, over the result p_res of f;
\* f receives the call's keywords without resp_proc.
ProcCall ==
    /\ p_pc = "ready"
    /\ p_pc' = "returned"
    /\ p_fkw' = p_callkw
    /\ \E h \in {HandleRespProc(p_dflt, p_kw, p_res, p_args, p_meth, p_endp)} :
           /\ p_proc' = h.proc
           /\ p_out' = h.out
           /\ p_applied' = h.applied
           /\ p_trace' = h.trace
           /\ p_errors' = p_errors + h.errors
           /\ p_args' = h.args
    /\ UNCHANGED notProc
    /\ UNCHANGED <<p_dflt, p_kw, p_res, p_dec, p_meth, p_endp, p_callkw,
                   p_endp2, p_used2, p_out2>>

\* A caller applies resp_bool to a response it holds.
ApplyRespBool ==
    /\ p_pc = "ready"
    /\ p_res.kind = "resp"
    /\ p_pc' = "applied"
    /\ p_out' = resp_bool(p_res)
    /\ p_applied' = <<p_res>>
    /\ UNCHANGED notProc
    /\ UNCHANGED <<p_dflt, p_kw, p_res, p_dec, p_args, p_meth, p_endp,
                   p_callkw, p_fkw, p_proc, p_trace, p_errors,
                   p_endp2, p_used2, p_out2>>

\* The resource_name attribute of the endpoint object of a later call:
\* the same object, another class's or none.
EndpointNames == {<<>>, <<"person">>, <<"signup">>}

\* A later call of the same decorated method, with the same keywords and
\* an equal result of f, on an endpoint object whose resource_name is e:
\* dec_f runs with the resp_proc_args dict the earlier call left.
ProcRecall ==
    /\ p_pc = "returned"
    /\ p_pc' = "recalled"
    /\ \E e \in EndpointNames :
          /\ p_endp2' = e
          /\ \E h \in {HandleRespProc(p_dflt, p_kw, p_res, p_args, p_meth, e)} :
                 /\ p_out2' = h.out
                 /\ p_used2' = h.args
    /\ UNCHANGED notProc
    /\ UNCHANGED <<p_dflt, p_kw, p_res, p_proc, p_out, p_applied, p_errors,
                   p_dec, p_args, p_meth, p_endp, p_callkw, p_fkw, p_trace>>

(***************************************************************************)
(* People.get and make_request, end to end.                                *)
(***************************************************************************)
HTTPErrorV == Val("HTTPError", 0, 0, FALSE, <<>>)

\* resp.raise_for_status(): requests raises HTTPError for 4xx and 5xx.
raise_for_statusNon2xx(status) == ~(200 <= status /\ status < 300)

raise_for_status(status) == 400 <= status /\ status < 600

\* The statuses the server may answer with.
HttpStatuses == {200, 201, 300, 404, 500}

\* f"people/{id if id else 'match?email=' + email}": str + None raises
\* TypeError.
PathRaises(id, email) == id = <<>> /\ email = <<>>

PeoplePath(id, email) ==
    IF id # <<>> THEN <<"people/", id[1]>>
    ELSE <<"people/match?email=", email[1]>>

\* The person resources, and the body {"person": P}.
Persons == { JDict([n \in D |-> AttrValue(n)]) : D \in (SUBSET {"id", "name"}) \ {{}} }

PersonBody(P) == JDict([k \in {"person"} |-> P])

\* The resp_proc values passed to People.get.
GetRespProcs ==
    {NoProc, One(RespBoolProc), One(payload_filter(FList(<<Leaf("id")>>), <<>>)),
     Chain(<<payload_filter(FNone, <<>>), RespBoolProc>>)}

GetIdle ==
    /\ g_pc = "idle"
    /\ g_id = <<>>
    /\ g_email = <<>>
    /\ g_kw = <<>>
    /\ g_status = 200
    /\ g_person = JNull
    /\ g_req = <<>>
    /\ g_recv = <<>>
    /\ g_trace = <<>>
    /\ g_out = NoneV

GetInit ==
    /\ g_pc = "ready"
    /\ g_id \in {<<>>, <<"1">>}
    /\ g_email \in {<<>>, <<"a@x.org">>}
    /\ g_kw \in {<<>>} \cup { <<rp>> : rp \in GetRespProcs }
    /\ g_status \in HttpStatuses
    /\ g_person \in Persons
    /\ g_req = <<>>
    /\ g_recv = <<>>
    /\ g_trace = <<>>
    /\ g_out = NoneV

\* session.make_request("get", "people/match?email=...") called directly:
\* the request is sent, raise_for_status, return resp.
MakeRequest ==
    /\ g_pc = "ready"
    /\ g_id = <<>> /\ g_email # <<>> /\ g_kw = <<>>
    /\ g_req' = <<PeoplePath(g_id, g_email)>>
    /\ IF raise_for_status(g_status)
          THEN /\ g_pc' = "raised"
               /\ g_out' = HTTPErrorV
               /\ g_recv' = g_recv
          ELSE /\ g_pc' = "returned"
               /\ g_out' = RespB(1, g_status, PersonBody(g_person))
               /\ g_recv' = <<RespB(1, g_status, PersonBody(g_person))>>
    /\ UNCHANGED <<g_id, g_email, g_kw, g_status, g_person, g_trace>>
    /\ UNCHANGED notGet

\* People.get(id, email, resp_proc=...) under
\* @handle_resp_proc(payload_filter()): the path, make_request, then the
\* processing with People.resource_name = "person".
PeopleGet ==
    /\ g_pc = "ready"
    /\ IF PathRaises(g_id, g_email)
          THEN /\ g_pc' = "raised"
               /\ g_out' = TypeErrorV
               /\ UNCHANGED <<g_req, g_recv, g_trace>>
          ELSE /\ g_req' = <<PeoplePath(g_id, g_email)>>
               /\ IF raise_for_status(g_status)
                     THEN /\ g_pc' = "raised"
                          /\ g_out' = HTTPErrorV
                          /\ UNCHANGED <<g_recv, g_trace>>
                     ELSE /\ g_recv' = <<RespB(1, g_status, PersonBody(g_person))>>
                          /\ \E h \in {HandleRespProc(One(payload_filter(FNone, <<>>)),
                                          g_kw,
                                          RespB(1, g_status, PersonBody(g_person)),
                                          <<>>, <<>>, <<"person">>)} :
                                /\ g_out' = h.out
                                /\ g_trace' = h.trace
                                /\ g_pc' = IF IsError(h.out) THEN "raised"
                                           ELSE "returned"
    /\ UNCHANGED <<g_id, g_email, g_kw, g_status, g_person>>
    /\ UNCHANGED notGet

(***************************************************************************)
(* create_discount (platforms/shopify/tasks.py), one request per step.     *)
(* Amounts are in cents.  A request to NationBuilder or Shopify ends in    *)
(* one of three ways: "ok"; "fail", it raises and changes nothing; "lost", *)
(* the service carries it out but the call raises (the answer is lost).    *)
(***************************************************************************)
Outcomes == {"ok", "fail", "lost"}

Applied(o) == o \in {"ok", "lost"}

Raises(o) == o \in {"fail", "lost"}

\* if 0 < redemption <= capital
CheckPassesNonStrict(redemption, capital) == 0 <= redemption /\ redemption <= capital

CheckPasses(redemption, capital) == 0 < redemption /\ redemption <= capital

\* The positions at which the execution is running.
Running == {"start", "got", "try", "created", "coded", "except", "restore"}

TaskIdle ==
    /\ t_pc = "idle"
    /\ t_person = <<>>
    /\ t_redemption = 0
    /\ t_price_rule = <<>>
    /\ t_exc = "none"
    /\ t_pending0 = <<>>
    /\ nb_pending = <<>>
    /\ nb_capital = 0
    /\ nb_entries = <<>>
    /\ shop_rules = {}
    /\ shop_codes = {}

TaskInit ==
    /\ t_pc = "start"
    /\ t_person = <<>>
    /\ t_redemption = 0
    /\ t_price_rule = <<>>
    /\ t_exc = "none"
    /\ nb_pending \in {<<>>} \cup { <<a>> : a \in -1..MaxAmount }
    /\ t_pending0 = nb_pending
    /\ nb_capital \in 0..MaxAmount
    /\ nb_entries = <<>>
    /\ shop_rules = {}
    /\ shop_codes = {}

\* person = nb.people.get(person_id, resp_proc=payload_filter([...]))
TaskGet ==
    /\ t_pc = "start"
    /\ \E o \in {"ok", "fail"} :
          IF o = "ok"
             THEN /\ t_person' = <<[pending |-> nb_pending, capital |-> nb_capital]>>
                  /\ t_pc' = "got"
                  /\ t_exc' = t_exc
             ELSE /\ t_person' = t_person
                  /\ t_pc' = "raised"
                  /\ t_exc' = "get"
    /\ UNCHANGED <<t_redemption, t_price_rule, t_pending0, nb_pending,
                   nb_capital, nb_entries, shop_rules, shop_codes>>
    /\ UNCHANGED notTask

\* nb.people.update({PENDING: None}, person_id), then lines 30-33:
\* float(person[PENDING]) raises TypeError on None; the check.
TaskClear ==
    /\ t_pc = "got"
    /\ \E o \in Outcomes :
          /\ nb_pending' = IF Applied(o) THEN <<>> ELSE nb_pending
          /\ IF Raises(o)
                THEN /\ t_pc' = "raised"
                     /\ t_exc' = "clear"
                     /\ t_redemption' = t_redemption
                ELSE IF t_person[1].pending = <<>>
                        THEN /\ t_pc' = "raised"
                             /\ t_exc' = "float"
                             /\ t_redemption' = t_redemption
                        ELSE /\ t_redemption' = t_person[1].pending[1]
                             /\ t_exc' = t_exc
                             /\ t_pc' = IF CheckPasses(t_person[1].pending[1],
                                                       t_person[1].capital)
                                           THEN "try" ELSE "done"
    /\ UNCHANGED <<t_person, t_price_rule, t_pending0, nb_capital, nb_entries,
                   shop_rules, shop_codes>>
    /\ UNCHANGED notTask

\* The id Shopify gives the next price rule.
NewRule == Cardinality(shop_rules) + 1

\* price_rule = shopify.PriceRule.create({...}); when the call raises,
\* price_rule stays unbound.
TaskCreateRule ==
    /\ t_pc = "try"
    /\ \E o \in Outcomes :
          /\ shop_rules' = IF Applied(o) THEN shop_rules \cup {NewRule} ELSE shop_rules
          /\ IF Raises(o)
                THEN /\ t_pc' = "except"
                     /\ t_exc' = "create"
                     /\ t_price_rule' = t_price_rule
                ELSE /\ t_pc' = "created"
                     /\ t_exc' = t_exc
                     /\ t_price_rule' = <<NewRule>>
    /\ UNCHANGED <<t_person, t_redemption, t_pending0, nb_pending, nb_capital,
                   nb_entries, shop_codes>>
    /\ UNCHANGED notTask

\* price_rule.add_discount_code(shopify.DiscountCode({...}))
TaskAddCode ==
    /\ t_pc = "created"
    /\ \E o \in Outcomes :
          /\ shop_codes' = IF Applied(o) THEN shop_codes \cup {t_price_rule[1]}
                           ELSE shop_codes
          /\ IF Raises(o)
                THEN t_pc' = "except" /\ t_exc' = "code"
                ELSE t_pc' = "coded" /\ t_exc' = t_exc
    /\ UNCHANGED <<t_person, t_redemption, t_price_rule, t_pending0, nb_pending,
                   nb_capital, nb_entries, shop_rules>>
    /\ UNCHANGED notTask

\* nb.people.add_capital(person_id, {"amount_in_cents": -round(...), ...})
TaskAddCapital ==
    /\ t_pc = "coded"
    /\ \E o \in Outcomes :
          /\ nb_entries' = IF Applied(o) THEN Append(nb_entries, -t_redemption)
                           ELSE nb_entries
          /\ nb_capital' = IF Applied(o) THEN nb_capital - t_redemption
                           ELSE nb_capital
          /\ IF Raises(o)
                THEN t_pc' = "except" /\ t_exc' = "capital"
                ELSE t_pc' = "done" /\ t_exc' = t_exc
    /\ UNCHANGED <<t_person, t_redemption, t_price_rule, t_pending0, nb_pending,
                   shop_rules, shop_codes>>
    /\ UNCHANGED notTask

\* except Exception: try: price_rule.destroy() except NameError: pass
\* An unbound price_rule raises NameError, which is passed over; an
\* exception of destroy() itself propagates once the finally clause ran.
TaskDestroy ==
    /\ t_pc = "except"
    /\ t_pc' = "restore"
    /\ IF t_price_rule = <<>>
          THEN UNCHANGED <<t_exc, shop_rules, shop_codes>>
          ELSE \E o \in Outcomes :
                  /\ shop_rules' = IF Applied(o) THEN shop_rules \ {t_price_rule[1]}
                                   ELSE shop_rules
                  /\ shop_codes' = IF Applied(o) THEN shop_codes \ {t_price_rule[1]}
                                   ELSE shop_codes
                  /\ t_exc' = IF Raises(o) THEN "destroy" ELSE t_exc
    /\ UNCHANGED <<t_person, t_redemption, t_price_rule, t_pending0, nb_pending,
                   nb_capital, nb_entries>>
    /\ UNCHANGED notTask

\* finally: nb.people.update({PENDING: redemption}, person_id); then raise
TaskRestore ==
    /\ t_pc = "restore"
    /\ t_pc' = "raised"
    /\ \E o \in Outcomes :
          /\ nb_pending' = IF Applied(o) THEN <<t_redemption>> ELSE nb_pending
          /\ t_exc' = IF Raises(o) THEN "restore" ELSE t_exc
    /\ UNCHANGED <<t_person, t_redemption, t_price_rule, t_pending0, nb_capital,
                   nb_entries, shop_rules, shop_codes>>
    /\ UNCHANGED notTask

\* time_limit = 30 (BaseTask): the worker process running the execution is
\* killed; no except or finally clause runs.
TaskKill ==
    /\ t_pc \in Running
    /\ t_pc' = "killed"
    /\ t_exc' = "time_limit"
    /\ UNCHANGED <<t_person, t_redemption, t_price_rule, t_pending0, nb_pending,
                   nb_capital, nb_entries, shop_rules, shop_codes>>
    /\ UNCHANGED notTask

(***************************************************************************)
(* One enqueue of create_discount on the task queue                        *)
(* (platforms/shopify/worker.py): every attempt runs the body under the    *)
(* redis lock; an attempt that raises is retried until max_retries retries *)
(* were made, after which on_failure runs.  Another execution of the task, *)
(* for another person, takes and releases the lock of its own key.         *)
(***************************************************************************)
PersonIds == 1..MaxPersons

\* CreateDiscountTask.max_retries
max_retries == 2

\* f.__name__ of the function under @lock: @session wraps create_discount
\* with functools.wraps, which copies __name__.
LockName == "create_discount"

\* conn.default_channel.client.lock(f.__name__, 30, blocking_timeout=5):
\* the key of the lock an execution for person_id takes.
LockKey(name, person_id) == name

LockKeys == { LockKey(LockName, p) : p \in PersonIds }

\* Task.retry: the attempt is retried while request.retries < max_retries;
\* after that the exception is raised and the task fails.
RetriesLeftInclusive(retries) == retries <= max_retries

RetriesLeft(retries) == retries < max_retries

QueueIdle ==
    /\ q_person = 0
    /\ q_retries = 0
    /\ q_attempts = 0
    /\ q_entered = 0
    /\ q_waited = 0
    /\ q_hook = "none"
    /\ q_lock = [k \in LockKeys |-> "free"]
    /\ o_pc = "idle"
    /\ o_person = 0

\* create_discount.apply_async((person_id,), countdown=2) was called: the
\* message waits in the queue.
QueueInit ==
    /\ t_pc = "queued"
    /\ t_person = <<>>
    /\ t_redemption = 0
    /\ t_price_rule = <<>>
    /\ t_exc = "none"
    /\ nb_pending \in {<<>>} \cup { <<a>> : a \in -1..MaxAmount }
    /\ t_pending0 = nb_pending
    /\ nb_capital \in 0..MaxAmount
    /\ nb_entries = <<>>
    /\ shop_rules = {}
    /\ shop_codes = {}
    /\ q_person \in PersonIds
    /\ o_person \in PersonIds \ {q_person}
    /\ q_retries = 0
    /\ q_attempts = 0
    /\ q_entered = 0
    /\ q_waited = 0
    /\ q_hook = "none"
    /\ q_lock = [k \in LockKeys |-> "free"]
    /\ o_pc = "idle"

TaskKey == LockKey(LockName, q_person)

OtherKey == LockKey(LockName, o_person)

\* __exit__ of the lock: the key is freed if this execution holds it.
Released == [k \in LockKeys |-> IF q_lock[k] = "task" THEN "free" ELSE q_lock[k]]

\* A worker starts an attempt: dec_f of lock asks for the lock.  A free
\* lock is acquired and the body starts; a held one makes the attempt wait.
QTryLock ==
    /\ t_pc = "queued"
    /\ q_attempts' = q_attempts + 1
    /\ IF q_lock[TaskKey] = "free"
          THEN /\ q_lock' = [q_lock EXCEPT ![TaskKey] = "task"]
               /\ q_entered' = q_entered + 1
               /\ q_waited' = q_waited
               /\ t_pc' = "start"
          ELSE /\ t_pc' = "waiting"
               /\ q_waited' = q_waited + 1
               /\ UNCHANGED <<q_lock, q_entered>>
    /\ UNCHANGED <<t_person, t_redemption, t_price_rule, t_exc, t_pending0,
                   nb_pending, nb_capital, nb_entries, shop_rules, shop_codes>>
    /\ UNCHANGED <<q_person, q_retries, q_hook, o_pc, o_person>>
    /\ UNCHANGED notQueue

\* The lock is freed within blocking_timeout: the waiting attempt gets it.
QLockLate ==
    /\ t_pc = "waiting"
    /\ q_lock[TaskKey] = "free"
    /\ q_lock' = [q_lock EXCEPT ![TaskKey] = "task"]
    /\ q_entered' = q_entered + 1
    /\ t_pc' = "start"
    /\ UNCHANGED <<t_person, t_redemption, t_price_rule, t_exc, t_pending0,
                   nb_pending, nb_capital, nb_entries, shop_rules, shop_codes>>
    /\ UNCHANGED <<q_person, q_retries, q_attempts, q_waited, q_hook, o_pc,
                   o_person>>
    /\ UNCHANGED notQueue

\* blocking_timeout=5 passes with the lock still held: Lock.__enter__
\* raises LockError, which leaves dec_f; the body did not start.
QLockError ==
    /\ t_pc = "waiting"
    /\ q_lock[TaskKey] # "free"
    /\ t_pc' = "raised"
    /\ t_exc' = "lock"
    /\ UNCHANGED <<t_person, t_redemption, t_price_rule, t_pending0,
                   nb_pending, nb_capital, nb_entries, shop_rules, shop_codes>>
    /\ UNCHANGED queueVars
    /\ UNCHANGED notQueue

\* The body returned: the lock is released and the task succeeded.
QReturn ==
    /\ t_pc = "done"
    /\ t_pc' = "succeeded"
    /\ q_lock' = Released
    /\ UNCHANGED <<t_person, t_redemption, t_price_rule, t_exc, t_pending0,
                   nb_pending, nb_capital, nb_entries, shop_rules, shop_codes>>
    /\ UNCHANGED <<q_person, q_retries, q_attempts, q_entered, q_waited, q_hook,
                   o_pc, o_person>>
    /\ UNCHANGED notQueue

\* autoretry_for = (Exception,): an exception left the attempt, the lock
\* is released on the way out, and retries are left: the task is queued
\* again (default_retry_delay = 10) and the next attempt starts afresh.
QRetry ==
    /\ t_pc = "raised"
    /\ RetriesLeft(q_retries)
    /\ q_retries' = q_retries + 1
    /\ q_lock' = Released
    /\ t_pc' = "queued"
    /\ t_person' = <<>>
    /\ t_redemption' = 0
    /\ t_price_rule' = <<>>
    /\ t_exc' = "none"
    /\ UNCHANGED <<t_pending0, nb_pending, nb_capital, nb_entries, shop_rules,
                   shop_codes>>
    /\ UNCHANGED <<q_person, q_attempts, q_entered, q_waited, q_hook, o_pc,
                   o_person>>
    /\ UNCHANGED notQueue

\* No retry is left: the exception is raised, the task fails and
\* on_failure runs nb.people.update({PENDING: None}, args[0]), outside the
\* lock; an exception of the hook is logged by the worker.
QOnFailure ==
    /\ t_pc = "raised"
    /\ ~RetriesLeft(q_retries)
    /\ q_lock' = Released
    /\ t_pc' = "failed"
    /\ \E o \in Outcomes :
          /\ q_hook' = o
          /\ nb_pending' = IF Applied(o) THEN <<>> ELSE nb_pending
    /\ UNCHANGED <<t_person, t_redemption, t_price_rule, t_exc, t_pending0,
                   nb_capital, nb_entries, shop_rules, shop_codes>>
    /\ UNCHANGED <<q_person, q_retries, q_attempts, q_entered, q_waited, o_pc,
                   o_person>>
    /\ UNCHANGED notQueue

\* The lock of a killed execution is never released: redis drops the key
\* when its 30 seconds are over.
QExpire ==
    /\ t_pc = "killed"
    /\ q_lock[TaskKey] = "task"
    /\ q_lock' = Released
    /\ UNCHANGED taskVars
    /\ UNCHANGED <<q_person, q_retries, q_attempts, q_entered, q_waited, q_hook,
                   o_pc, o_person>>
    /\ UNCHANGED notQueue

\* The other execution acquires the lock of its key, and releases it.
OAcquire ==
    /\ o_pc = "idle"
    /\ q_lock[OtherKey] = "free"
    /\ q_lock' = [q_lock EXCEPT ![OtherKey] = "other"]
    /\ o_pc' = "locked"
    /\ UNCHANGED taskVars
    /\ UNCHANGED <<q_person, q_retries, q_attempts, q_entered, q_waited, q_hook,
                   o_person>>
    /\ UNCHANGED notQueue

ORelease ==
    /\ o_pc = "locked"
    /\ q_lock' = [q_lock EXCEPT ![OtherKey] = "free"]
    /\ o_pc' = "idle"
    /\ UNCHANGED taskVars
    /\ UNCHANGED <<q_person, q_retries, q_attempts, q_entered, q_waited, q_hook,
                   o_person>>
    /\ UNCHANGED notQueue

(***************************************************************************)
(* Endpoint.set_args (nationbuilder_api/endpoints/__init__.py) on a class  *)
(* with the methods of BlogPosts, which take site_slug and blog_id.  An    *)
(* argument of a call is <<v>>, or <<>> when it is not given.              *)
(***************************************************************************)
Methods == {"__call__", "get"}

FrozenNames == {"site_slug", "blog_id"}

FrozenValues == 1..MaxValues

NoArgs == [n \in FrozenNames |-> <<>>]

Kwargs == [FrozenNames -> {<<>>} \cup { <<v>> : v \in FrozenValues }]

\* partialmethod(meth, **kwargs) called with the keywords kw: the call's
\* keywords are laid over the frozen ones.
Merge(frozen, kw) ==
    [n \in FrozenNames |-> IF kw[n] # <<>> THEN kw[n] ELSE frozen[n]]

\* A function defined in the class body, and what set_args puts in its
\* place: a partialmethod object, which is a descriptor and not callable.
Function == [callable |-> TRUE, frozen |-> NoArgs]

Partialmethod(kw) == [callable |-> FALSE, frozen |-> kw]

ArgsIdle ==
    /\ a_pc = "idle"
    /\ a_attr = [m \in Methods |-> Function]
    /\ a_set = 0
    /\ a_last = NoArgs
    /\ a_meth = "none"
    /\ a_kw = NoArgs
    /\ a_recv = NoArgs

\* The class as its body defines it.
ArgsInit ==
    /\ a_pc = "ready"
    /\ a_attr = [m \in Methods |-> Function]
    /\ a_set = 0
    /\ a_last = NoArgs
    /\ a_meth = "none"
    /\ a_kw = NoArgs
    /\ a_recv = NoArgs

\* cls.set_args(**kw): every callable attribute of cls.__dict__ is replaced
\* by partialmethod(meth, **kw).
SetArgs ==
    /\ a_pc \in {"ready", "called"}
    /\ a_set < MaxSetArgs
    /\ a_set' = a_set + 1
    /\ a_pc' = "ready"
    /\ \E kw \in Kwargs :
          /\ a_attr' = [m \in Methods |->
                           IF a_attr[m].callable THEN Partialmethod(kw)
                           ELSE a_attr[m]]
          /\ a_last' = Merge(a_last, kw)
    /\ UNCHANGED <<a_meth, a_kw, a_recv>>
    /\ UNCHANGED notArgs

\* endpoint.m(**kw) for a method m of the class.
CallMethod ==
    /\ a_pc \in {"ready", "called"}
    /\ a_pc' = "called"
    /\ \E m \in Methods, kw \in Kwargs :
          /\ a_meth' = m
          /\ a_kw' = kw
          /\ a_recv' = Merge(a_attr[m].frozen, kw)
    /\ UNCHANGED <<a_attr, a_set, a_last>>
    /\ UNCHANGED notArgs

Init == PagInit /\ ProcIdle /\ FiltIdle /\ GetIdle /\ TaskIdle /\ QueueIdle /\ ArgsIdle

\* The caller evaluates dec_f(self, **kwargs).  dec_f contains a yield, so it
\* is a generator function: the call runs none of its body and evaluates to
\* a generator object, whatever yield_resps is.
Call ==
    /\ pc = "ready"
    /\ pc' = "created"
    /\ ret' = [kind |-> "generator", items |-> <<>>]
    /\ UNCHANGED notPag
    /\ UNCHANGED <<args, yield_resps, max_resps, resps, kwargs, resp, stop,
                   calls, served, yielded, raised, logged>>

\* The first next() on the generator: lines 30-34.
\* yield_resps is popped; max_resps is popped in non-streaming mode only.
Start ==
    /\ pc = "created"
    /\ LET yr == IF args.yield_resps = <<>> THEN FALSE ELSE args.yield_resps[1]
       IN  /\ yield_resps' = yr
           /\ max_resps' = IF ~yr /\ args.max_resps # <<>>
                              THEN args.max_resps[1] ELSE -1
           /\ kwargs' = IF yr /\ args.max_resps # <<>>
                           THEN DictUpdate(args.kwargs,
                                    [n \in {"max_resps"} |->
                                        Scalar(ToString(args.max_resps[1]))])
                           ELSE args.kwargs
    /\ resps' = <<>>
    /\ pc' = "loop"
    /\ UNCHANGED notPag
    /\ UNCHANGED <<args, resp, ret, stop, calls, served, yielded, raised, logged>>

\* return resps (non-streaming) or the end of the body (streaming):
\* the generator finishes, StopIteration carries the value.
Finished(rs) ==
    /\ pc' = "done"
    /\ stop' = IF yield_resps THEN NoValue ELSE [kind |-> "list", items |-> rs]

\* Lines 45-50 on the page r.
Advance(r, rs) ==
    IF HasNext(r)
        THEN /\ kwargs' = UpdateKwargs(kwargs, r.next[1])
             /\ pc' = "loop"
             /\ stop' = stop
        ELSE /\ kwargs' = kwargs
             /\ Finished(rs)

\* session.logger.exception(...), lines 55-57: Logger.exception writes its
\* record at level ERROR, with the traceback.
ExceptionLevelWarning == "WARNING"

ExceptionLevel == "ERROR"

\* Lines 52-62 after f raised.
Except ==
    /\ raised' = TRUE
    /\ IF SwallowsException(yield_resps, resps)
          THEN /\ logged' = Append(logged, ExceptionLevel)
               /\ Finished(resps)
          ELSE /\ logged' = logged
               /\ pc' = "failed"
               /\ stop' = stop

\* The while condition is false: the loop is left.
LoopExit ==
    /\ pc = "loop"
    /\ ~LoopContinues(yield_resps, resps, max_resps)
    /\ Finished(resps)
    /\ UNCHANGED notPag
    /\ UNCHANGED <<args, yield_resps, max_resps, resps, kwargs, resp, ret,
                   calls, served, yielded, raised, logged>>

\* One iteration, non-streaming: f answers with a page, which is appended.
FetchCollect ==
    /\ pc = "loop"
    /\ ~yield_resps
    /\ LoopContinues(yield_resps, resps, max_resps)
    /\ ~BindingRaises(kwargs)
    /\ \E r \in Pages(Len(served) + 1) :
          /\ calls' = Append(calls, kwargs)
          /\ served' = Append(served, r)
          /\ resp' = r
          /\ resps' = Append(resps, r)
          /\ Advance(r, Append(resps, r))
    /\ UNCHANGED notPag
    /\ UNCHANGED <<args, yield_resps, max_resps, ret, yielded, raised, logged>>

\* One iteration, streaming: f answers with a page, which is yielded.
FetchYield ==
    /\ pc = "loop"
    /\ yield_resps
    /\ LoopContinues(yield_resps, resps, max_resps)
    /\ ~BindingRaises(kwargs)
    /\ \E r \in Pages(Len(served) + 1) :
          /\ calls' = Append(calls, kwargs)
          /\ served' = Append(served, r)
          /\ resp' = r
          /\ yielded' = Append(yielded, r)
    /\ pc' = "yielded"
    /\ UNCHANGED notPag
    /\ UNCHANGED <<args, yield_resps, max_resps, resps, kwargs, ret, stop,
                   raised, logged>>

\* The consumer asks for the next value: the generator resumes after the
\* yield, at line 45.
Resume ==
    /\ pc = "yielded"
    /\ Advance(resp, resps)
    /\ UNCHANGED notPag
    /\ UNCHANGED <<args, yield_resps, max_resps, resps, resp, ret, calls,
                   served, yielded, raised, logged>>

\* One iteration in which f raises: make_request cannot bind its arguments,
\* the transport fails, or raise_for_status raises.
FetchRaise ==
    /\ pc = "loop"
    /\ LoopContinues(yield_resps, resps, max_resps)
    /\ calls' = Append(calls, kwargs)
    /\ Except
    /\ UNCHANGED notPag
    /\ UNCHANGED <<args, yield_resps, max_resps, resps, kwargs, resp, ret,
                   served, yielded>>

Next ==
    \/ Call
    \/ Start
    \/ LoopExit
    \/ FetchCollect
    \/ FetchYield
    \/ Resume
    \/ FetchRaise

Spec == Init /\ [][Next]_vars

InitProc == PagIdle /\ ProcInit /\ FiltIdle /\ GetIdle /\ TaskIdle /\ QueueIdle /\ ArgsIdle

NextProc ==
    \/ ProcCall
    \/ ApplyRespBool
    \/ ProcRecall

SpecProc == InitProc /\ [][NextProc]_vars

InitFilter == PagIdle /\ ProcIdle /\ FiltInit /\ GetIdle /\ TaskIdle /\ QueueIdle /\ ArgsIdle

NextFilter ==
    \/ ApplyFilter
    \/ ApplyFilterAgain

SpecFilter == InitFilter /\ [][NextFilter]_vars

InitGet == PagIdle /\ ProcIdle /\ FiltIdle /\ GetInit /\ TaskIdle /\ QueueIdle /\ ArgsIdle

NextGet ==
    \/ MakeRequest
    \/ PeopleGet

SpecGet == InitGet /\ [][NextGet]_vars

InitTask == PagIdle /\ ProcIdle /\ FiltIdle /\ GetIdle /\ TaskInit /\ QueueIdle /\ ArgsIdle

NextTask ==
    \/ TaskGet
    \/ TaskClear
    \/ TaskCreateRule
    \/ TaskAddCode
    \/ TaskAddCapital
    \/ TaskDestroy
    \/ TaskRestore
    \/ TaskKill

SpecTask == InitTask /\ [][NextTask]_vars

InitQueue == PagIdle /\ ProcIdle /\ FiltIdle /\ GetIdle /\ QueueInit /\ ArgsIdle

NextQueue ==
    \/ QTryLock
    \/ QLockLate
    \/ QLockError
    \/ TaskGet
    \/ TaskClear
    \/ TaskCreateRule
    \/ TaskAddCode
    \/ TaskAddCapital
    \/ TaskDestroy
    \/ TaskRestore
    \/ TaskKill
    \/ QReturn
    \/ QRetry
    \/ QOnFailure
    \/ QExpire
    \/ OAcquire
    \/ ORelease

SpecQueue == InitQueue /\ [][NextQueue]_vars

InitArgs ==
    PagIdle /\ ProcIdle /\ FiltIdle /\ GetIdle /\ TaskIdle /\ QueueIdle /\ ArgsInit

NextArgs ==
    \/ SetArgs
    \/ CallMethod

SpecArgs == InitArgs /\ [][NextArgs]_vars

(***************************************************************************)
(* Properties of handle_pagination, checked under Spec.                    *)
(***************************************************************************)
NonStreaming == pc # "ready" /\ args.yield_resps = <<>>

Streaming == pc # "ready" /\ args.yield_resps = <<TRUE>>

\* Page k carries a `next` link.
Linked(k) == served[k].next # <<>>

\* The N pages served are a complete listing: all but the last carry a link.
CompleteListing ==
    /\ served # <<>>
    /\ \A k \in 1..Len(served) : Linked(k) <=> k < Len(served)

\* C1 (as claimed): a non-streaming call with unlimited max_resps and no
\* failing fetch, over N pages of which only the last has no `next` link,
\* issues exactly N requests and returns to its caller the list of the N
\* per-page results in fetch order.
C1_ReturnsListOfAllPages ==
    (NonStreaming /\ args.max_resps = <<>> /\ ~raised /\ pc = "done")
        => /\ CompleteListing
           /\ Len(Requests) = Len(served)
           /\ ret.kind = "list"
           /\ ret.items = served

\* C2: a streaming call with no failing fetch yields the pages the server
\* served, one value per page and in fetch order; a page is requested only
\* once every earlier page has been yielded; the stream ends after the first
\* page without a `next` link and no request follows it.
C2_StreamYieldsEachPageInOrder ==
    (Streaming /\ ~raised)
        => /\ yielded = served
           /\ Len(calls) = Len(yielded)
           /\ Len(Requests) = Len(yielded)
           /\ \A k \in 1..Len(served) : served[k].id = k
           /\ \A k \in 1..(Len(served) - 1) : Linked(k)
           /\ pc = "loop" /\ served # <<>> => Linked(Len(served))
           /\ pc = "done" => CompleteListing /\ stop.kind = "none"
           /\ pc # "failed"

C2_Witness ==
    /\ Streaming /\ ~raised /\ pc = "done"
    /\ Len(yielded) >= 2

\* C3 (as claimed): in a non-streaming call, when pages 1..k (k >= 1) were
\* collected and the fetch of page k+1 raises, the pagination ends in Done,
\* the caller receives the list of exactly the k collected results and no
\* exception reaches it.
C3_PartialListReturned ==
    (NonStreaming /\ raised /\ served # <<>>)
        => /\ pc = "done"
           /\ ret.kind = "list"
           /\ ret.items = served

\* C4: a page-fetch exception propagates out of the pagination, and no list
\* is delivered, exactly when the call is streaming or nothing has been
\* collected; in streaming mode it surfaces when the value after the k
\* yielded ones is requested.
C4_ExceptionPropagates ==
    /\ pc = "failed" => raised
    /\ raised =>
          /\ pc \in {"failed", "done"}
          /\ pc = "failed" <=> (Streaming \/ served = <<>>)
          /\ pc = "failed" => stop.kind = "none" /\ ret.kind # "list"
          /\ pc = "done" => stop.kind = "list" /\ stop.items = served
          /\ Streaming => yielded = served /\ Len(calls) = Len(yielded) + 1

C4_Witness ==
    /\ Streaming /\ pc = "failed"
    /\ Len(yielded) >= 1

\* C5 (as claimed): a non-streaming call with max_resps = m >= 0 never
\* issues more than m page requests and returns a list of at most m
\* elements, even when page m carries a `next` link; with m = 0 it issues no
\* request and its result is the empty list.
C5_MaxRespsBoundsTheList ==
    (NonStreaming /\ args.max_resps # <<>>)
        => /\ Len(calls) <= args.max_resps[1]
           /\ ret.kind = "list"
           /\ Len(ret.items) <= args.max_resps[1]
           /\ args.max_resps[1] = 0 => ret.items = <<>>

\* What holds of C5 in the code: the bound on the page requests, and on
\* the list the generator finishes with.
MaxRespsBoundsTheFetches ==
    (NonStreaming /\ args.max_resps # <<>>)
        => /\ Len(calls) <= args.max_resps[1]
           /\ Len(served) <= args.max_resps[1]
           /\ stop.kind = "list" => Len(stop.items) <= args.max_resps[1]

\* The names of the query string q, and the values q gives the name n.
NamesIn(q) == { q[i][1] : i \in 1..Len(q) }

GivenIn(q, n) == { q[i][2] : i \in { j \in 1..Len(q) : q[j][1] = n } }

ItemsOf(v) == { v.items[i] : i \in 1..Len(v.items) }

\* C6 (as claimed): when page k carries a `next` link, the request for page
\* k+1 sends every query parameter of the link with the link's value, in
\* place of a same-named parameter of the caller, and sends the parameters
\* the link does not name as the request before sent them.
C6_LinkParametersAreSent ==
    \A k \in 1..Len(served) :
        (Linked(k) /\ k + 1 <= Len(Requests))
            => LET q   == served[k].next[1]
                   was == Requests[k].params
                   now == Requests[k + 1].params
               IN  /\ \A n \in NamesIn(q) :
                         /\ n \in DOMAIN now
                         /\ ItemsOf(now[n]) = GivenIn(q, n)
                   /\ \A n \in DOMAIN was \ NamesIn(q) :
                         /\ n \in DOMAIN now
                         /\ now[n] = was[n]

\* C7 (as claimed): the cursor for page k+1 is parsed from page k's link
\* only, so a parameter introduced by page k-1's link and absent from page
\* k's link is not sent on the request for page k+1.
C7_CursorIsLastLinkOnly ==
    \A k \in 2..Len(served) :
        (Linked(k) /\ k + 1 <= Len(Requests))
            => \A n \in DOMAIN parse_qs(served[k - 1].next[1]) :
                  (n \notin DOMAIN args.kwargs /\ n \notin NamesIn(served[k].next[1]))
                      => n \notin DOMAIN Requests[k + 1].params

\* C7 (amended): the keyword arguments for page k+1 are those of page k
\* updated with page k's link: a name the link gives a non-blank value takes
\* the link's values in place of any earlier value, every other name keeps
\* the value it had for page k, a name of an earlier link included.
C7_CursorAccumulates ==
    \A k \in 1..Len(served) :
        (Linked(k) /\ k + 1 <= Len(calls))
            => LET q   == served[k].next[1]
                   set == { n \in NamesIn(q) : GivenIn(q, n) # {""} }
                   was == calls[k]
                   now == calls[k + 1]
               IN  /\ DOMAIN now = DOMAIN was \cup set
                   /\ \A n \in set :
                         /\ now[n].list
                         /\ ItemsOf(now[n]) = GivenIn(q, n) \ {""}
                   /\ \A n \in DOMAIN was \ set : now[n] = was[n]

\* Page 1's link introduced a parameter, page 2's link does not name it, and
\* the request for page 3 still carries it.
C7_Witness ==
    /\ Len(Requests) >= 3
    /\ \E n \in DOMAIN parse_qs(served[1].next[1]) :
          /\ n \notin DOMAIN args.kwargs
          /\ n \notin NamesIn(served[2].next[1])
          /\ n \in DOMAIN Requests[3].params

\* C8 (as claimed): every page request of one call has the method, path,
\* headers, body and timeout of the first, whatever names the links carry.
C8_RequestSpecIsReadOnly ==
    \A i \in 1..Len(Requests) :
        /\ Requests[i].http_meth = Requests[1].http_meth
        /\ Requests[i].url_path = Requests[1].url_path
        /\ Requests[i].headers = Requests[1].headers
        /\ Requests[i].payload = Requests[1].payload
        /\ Requests[i].timeout = Requests[1].timeout

(***************************************************************************)
(* Properties of the response processing, checked under SpecProc.          *)
(***************************************************************************)
\* C9: resp_bool applied to a truthy response returns the boolean True;
\* applied to a falsy response it returns that very response, unmodified.
C9_RespBool ==
    p_pc = "applied"
        => IF p_res.status \in {200}
              THEN p_out.kind = "bool" /\ p_out.b
              ELSE p_out.kind = "resp" /\ p_out = p_res

C9_Witness ==
    /\ p_pc = "applied"
    /\ p_res.status = 404
    /\ p_out = p_res

\* The result of f is a non-empty list with a falsy element.
BatchWithFailure ==
    /\ p_pc = "returned"
    /\ p_res.kind = "list"
    /\ \E i \in 1..Len(p_res.items) : p_res.items[i].status = 404

\* C10 (as claimed): when f returns a non-empty list with a falsy element,
\* no processor is applied, an error is logged and the caller receives that
\* same list unchanged.
C10_RawListAndErrorLogged ==
    BatchWithFailure
        => /\ p_applied = <<>>
           /\ p_errors = 1
           /\ p_out = p_res

\* C10 (amended): when f returns a non-empty list with a falsy element, no
\* processor is applied and the caller receives that same list unchanged;
\* an error is logged, once, exactly when a processor is in effect for the
\* call (resp_proc is not None).
C10_RawListReturned ==
    BatchWithFailure
        => /\ p_applied = <<>>
           /\ p_out = p_res
           /\ p_errors = IF p_proc = NoProc THEN 0 ELSE 1

C10_Witness ==
    /\ BatchWithFailure
    /\ \E i \in 1..Len(p_res.items) : p_res.items[i].status = 200
    /\ p_proc = One(RespBoolProc)
    /\ p_errors = 1
    /\ p_out = p_res

\* A call of a paginated method whose pages are all truthy, with the
\* default processor payload_filter() and the method's resource_name
\* ("results", set by handle_pagination) to be found.
PaginatedCall ==
    /\ p_pc = "returned"
    /\ p_res.kind = "generator"
    /\ p_proc = One(payload_filter(FNone, <<>>))
    /\ p_dec = <<>>
    /\ p_endp # <<>>

\* The resources of the pages, in page order, in one flat list.
ResourcesOf(pages) ==
    [k \in 1..Len(pages) |-> JsonV(pages[k].data.d["results"].l[1])]

\* C11 (as claimed): for a paginated endpoint call whose N page responses
\* are all truthy, the processor is invoked exactly once per page and the
\* caller receives the concatenation, in page order, of the N per-page
\* processed results, one flat list of resources.
C11_PagesProcessedAndConcatenated ==
    PaginatedCall
        => /\ p_applied = p_res.items
           /\ Len(p_trace) = Len(p_res.items)
           /\ p_out.kind = "list"
           /\ p_out.items = ResourcesOf(p_res.items)

\* What holds in the code: were the result of f a list of truthy page
\* responses, they would be processed once each and concatenated.
ListOfPagesIsFlattened ==
    (/\ p_pc = "returned"
     /\ p_res.kind = "list" /\ p_res.items # <<>> /\ AllOk(p_res.items)
     /\ p_proc = One(payload_filter(FNone, <<>>))
     /\ p_dec = <<>> /\ p_meth # <<>> /\ p_endp # <<>>)
        => /\ p_applied = p_res.items
           /\ Len(p_trace) = Len(p_res.items)
           /\ p_out.kind = "list"
           /\ p_out.items = ResourcesOf(p_res.items)

\* A call that hands one truthy response to a payload_filter processor
\* without a filter, the decorator having been given no resource_name.
ResourceNameCall ==
    /\ p_pc = "returned"
    /\ p_res.kind = "resp" /\ p_res.status = 200
    /\ p_proc.callable
    /\ p_proc.procs[1].fn = "payload_filter"
    /\ p_proc.procs[1].filter = FNone
    /\ p_dec = <<>>

\* The first value available, in the claimed order.
FirstOf(call, bound, meth, endp) ==
    IF call # <<>> THEN call
    ELSE IF bound # <<>> THEN bound
    ELSE IF meth # <<>> THEN meth ELSE endp

\* C15 (as claimed): the resource_name the processor is called with is the
\* first available of: the per-call value, the value bound into the
\* processor, the attribute of the method, the attribute of the endpoint;
\* with none of them the parameter is not passed (the whole payload is the
\* resource) and no error is raised.
C15_ResourceNamePrecedence ==
    ResourceNameCall
        => LET rn == FirstOf(p_callkw, p_proc.procs[1].bound, p_meth, p_endp)
           IN  p_out = JsonV(IF rn = <<>> THEN p_res.data
                             ELSE p_res.data.d[rn[1]])

\* A call that hands one truthy response to proc_resp.
ProcRespCall ==
    /\ p_pc = "returned"
    /\ p_res.kind \in {"resp", "generator"}
    /\ Truthy(p_res)
    /\ ProcTruthy(p_proc)

\* C16: given a list of processors [p1, ..., pn], proc_resp applies them
\* in list order, once each, p1 to the response and every other one to the
\* output of the one before, and returns the output of pn (a processor that
\* raises ends the chain with its exception); given a single callable it
\* returns that processor applied to the response.
C16_ProcessorsThreadedInOrder ==
    ProcRespCall
        => LET ps == p_proc.procs
               n == Len(p_trace)
           IN  /\ 1 <= n /\ n <= Len(ps)
               /\ \A i \in 1..n :
                     /\ p_trace[i].proc = ps[i]
                     /\ p_trace[i].in = IF i = 1 THEN p_res ELSE p_trace[i - 1].out
                     /\ p_trace[i].out =
                            handle_resp_proc_args(ps[i], p_trace[i].in, p_args)
                     /\ i < n => ~IsError(p_trace[i].out)
               /\ n < Len(ps) => IsError(p_trace[n].out)
               /\ p_out = p_trace[n].out

C16_Witness ==
    /\ ProcRespCall
    /\ p_res.kind = "resp"
    /\ p_proc = Chain(<<payload_filter(FNone, <<>>), RespBoolProc>>)
    /\ p_endp = <<"person">> /\ p_meth = <<>> /\ p_dec = <<>>
    /\ Len(p_trace) = 2
    /\ p_trace[1].out = JsonV(Person)
    /\ p_trace[2].in = JsonV(Person)
    /\ p_out = BoolV(TRUE)

(***************************************************************************)
(* Properties of People.get and make_request, checked under SpecGet.       *)
(***************************************************************************)
\* People.get by email returned normally.
GotByEmail ==
    /\ g_pc = "returned"
    /\ g_id = <<>>
    /\ g_email # <<>>
    /\ g_trace # <<>>

FilterOnId == One(payload_filter(FList(<<Leaf("id")>>), <<>>))

\* C17: people.get by email, the body being {"person": P}, returns P when
\* resp_proc is omitted, and P restricted to the filter's attribute (None
\* for an attribute P lacks) when resp_proc = payload_filter(["id"]); a
\* per-call resp_proc replaces the default processor: only its processors
\* are applied, the first of them to the response itself.
C17_GetByEmail ==
    GotByEmail
        => /\ g_kw = <<>> => g_out = JsonV(g_person)
           /\ g_kw = <<FilterOnId>>
                => g_out = JsonV(JDict([n \in {"id"} |-> Get(g_person, n)]))
           /\ g_kw # <<>>
                => /\ \A i \in 1..Len(g_trace) : g_trace[i].proc = g_kw[1].procs[i]
                   /\ g_trace[1].in = g_recv[1]

C17_Witness ==
    /\ GotByEmail
    /\ g_kw = <<FilterOnId>>
    /\ g_person = Person
    /\ g_out = JsonV(JDict([n \in {"id"} |-> JStr("1")]))

\* What make_request handed back, and what the processors were given.
Received ==
    { g_recv[i] : i \in 1..Len(g_recv) }
        \cup { g_trace[i].in : i \in { j \in 1..Len(g_trace) : g_trace[j].in.kind = "resp" } }

CheckFailed ==
    /\ t_person # <<>>
    /\ t_person[1].pending # <<>>
    /\ \/ t_person[1].pending[1] <= 0
       \/ t_person[1].pending[1] > t_person[1].capital

NothingExchanged ==
    /\ shop_rules = {}
    /\ shop_codes = {}
    /\ nb_entries = <<>>
    /\ nb_capital = t_person[1].capital

FailedAfterCheck ==
    /\ t_pc \in {"raised", "killed"}
    /\ t_person # <<>>
    /\ 0 < t_redemption
    /\ t_redemption <= t_person[1].capital

\* C20 (as claimed): on any failure of the exchange after the balance
\* check (creating the price rule, attaching the code or recording the
\* deduction fails, or the execution is cut off), the discount the
\* execution created no longer exists and the pending field holds the
\* amount it held before the execution started.
C20_RolledBackOnFailure ==
    FailedAfterCheck
        => /\ shop_rules = {}
           /\ nb_pending = t_pending0

\* What the handler does achieve: when an exception of the exchange is
\* handled and neither price_rule.destroy() nor the restoring update
\* raises, the pending field is restored, and the price rule is gone if
\* the execution had its object.
RolledBackWhenHandlerSucceeds ==
    (FailedAfterCheck /\ t_exc \in {"create", "code", "capital"})
        => /\ nb_pending = t_pending0
           /\ t_price_rule # <<>> => shop_rules = {}

(***************************************************************************)
(* Properties of filter_resource, checked under SpecFilter.                *)
(***************************************************************************)
Filtered == f_pc \in {"once", "twice"}

EntryNames(es) == { es[i].n : i \in 1..Len(es) }

\* The mapping a list of leaf names stands for.
LeafMapping(resource, es) ==
    JDict([n \in EntryNames(es) |-> Get(resource, n)])

C13_ListFilterBuildsMapping ==
    (Filtered /\ f_filter.t = "list")
        => /\ f_out.t = "dict"
           /\ DOMAIN f_out.d = EntryNames(f_filter.es)
           /\ \A i \in 1..Len(f_filter.es) :
                 LET e == f_filter.es[i]
                 IN  IF e.leaf
                        THEN f_out.d[e.n] = Get(f_resource, e.n)
                        ELSE e.n \in DOMAIN f_resource.d
                                => f_out.d[e.n] = LeafMapping(f_resource.d[e.n], e.sub.es)

\* Every attribute the list filter names, at either level, is on the resource.
NamesOnlyPresent ==
    \A i \in 1..Len(f_filter.es) :
        LET e == f_filter.es[i]
        IN  /\ e.n \in DOMAIN f_resource.d
            /\ ~e.leaf => EntryNames(e.sub.es) \subseteq DOMAIN f_resource.d[e.n].d

\* C14 (as claimed): for a list filter s naming only attributes present on
\* r, filter_resource(r, s) is a mapping and filtering it again with s gives
\* the same mapping.
C14_FilterIdempotent ==
    (Filtered /\ f_filter.t = "list" /\ NamesOnlyPresent)
        => /\ f_out.t = "dict"
           /\ f_pc = "twice" => f_twice = f_out

\* What holds of C12-C14 in the code: a list of leaf names only.
LeafOnlyFilterHolds ==
    (Filtered /\ f_filter.t = "list"
       /\ \A i \in 1..Len(f_filter.es) : f_filter.es[i].leaf)
        => /\ f_out = LeafMapping(f_resource, f_filter.es)
           /\ f_pc = "twice" => f_twice = f_out

(***************************************************************************)
(* Further properties of handle_resp_proc, checked under SpecProc.         *)
(***************************************************************************)
\* The call is made with no processor: resp_proc = None is passed, or the
\* method has no default and none is passed.
NoProcessorApplies ==
    \/ p_kw = <<NoProc>>
    \/ p_kw = <<>> /\ p_dflt = NoProc

\* C23: when no processor applies to a call (resp_proc = None is passed, or
\* there is no default and none is passed) or the underlying result is
\* falsy, the method returns the underlying result itself, unmodified, and
\* no processor is invoked.
C23_RawResultWithoutProcessor ==
    (p_pc = "returned" /\ (NoProcessorApplies \/ ~Truthy(p_res)))
        => /\ p_out = p_res
           /\ p_trace = <<>>
           /\ p_applied = <<>>
           /\ p_errors = 0

C23_Witness ==
    /\ p_pc = "returned"
    /\ p_kw = <<NoProc>>
    /\ p_dflt = One(payload_filter(FNone, <<>>))
    /\ p_res = RespB(1, 200, Body)
    /\ p_out = p_res
    /\ p_trace = <<>>

(***************************************************************************)
(* Further properties of handle_pagination, checked under Spec.            *)
(***************************************************************************)
\* A non-streaming call swallowed a page-fetch exception and ended with the
\* partial list of the pages fetched before it.
SwallowedWithPartialList ==
    /\ pc = "done"
    /\ ~yield_resps
    /\ raised
    /\ stop = [kind |-> "list", items |-> resps]
    /\ resps # <<>>

ControlArgs == {"max_resps", "yield_resps", "resp_proc"}

\* C28 (as claimed): max_resps, yield_resps and resp_proc are consumed by
\* the decorators: no request of a call, streaming or not, is made with one
\* of them among the keywords that make_request turns into query parameters.
C28_ControlArgsConsumed ==
    \A i \in 1..Len(calls) : DOMAIN calls[i] \cap ControlArgs = {}

\* What a call resolves and returns with the decorator's arguments as they
\* were written, on an endpoint object whose resource_name is e.
FreshCall(e) == HandleRespProc(p_dflt, p_kw, p_res, p_dec, p_meth, e)

\* C29 (as claimed): handle_resp_proc keeps no state between calls: the
\* resource_name a later call resolves, and so the value it returns, are
\* those of a first call with the same processor, method and endpoint
\* object, whatever an earlier call resolved.
C29_NoStateBetweenCalls ==
    (p_pc = "recalled" /\ ProcTruthy(p_proc) /\ Truthy(p_res))
        => /\ p_used2 = FreshCall(p_endp2).args
           /\ p_out2 = FreshCall(p_endp2).out

(***************************************************************************)
(* Further properties of create_discount, checked under SpecTask.          *)
(***************************************************************************)
\* C27 (as claimed): whenever an execution of create_discount has ended,
\* returned or raised, a discount it created still exists if and only if it
\* recorded the matching negative capital entry, even when the rollback's
\* destroy call itself fails.
C27_ExchangeAtomic ==
    t_pc \in {"done", "raised"}
        => (shop_rules # {} <=> nb_entries # <<>>)

(***************************************************************************)
(* Properties of the task on the queue, checked under SpecQueue.           *)
(***************************************************************************)
\* C21 (as claimed): the lock is keyed by the person id, so executions for
\* different person ids never wait on or time out against each other.
C21_LockKeyedByPerson ==
    o_person # q_person
        => /\ q_waited = 0
           /\ t_pc # "waiting"
           /\ t_exc # "lock"

\* No attempt of the task got the lock so far.
NeverEntered == q_attempts > 0 /\ q_entered = 0

\* C22 (as claimed): when the lock cannot be acquired within its bounded
\* wait, the lock-timeout error propagates out of the task and nothing is
\* done for the person: the record is not written, no discount is created
\* and no capital is deducted, also once the retries are exhausted.
C22_NoSideEffectOnLockTimeout ==
    NeverEntered
        => /\ t_pc \in {"raised", "failed"} => t_exc = "lock"
           /\ nb_pending = t_pending0
           /\ nb_entries = <<>>
           /\ shop_rules = {}

\* C26 (as claimed): for one pending redemption request, across every
\* retry of the task, capital is deducted at most once and at most one
\* discount created for the request remains in existence.
C26_AtMostOneExchange ==
    /\ Len(nb_entries) <= 1
    /\ Cardinality(shop_rules) <= 1

C24_FrozenUnlessOverridden ==
    a_pc = "called"
        => \A n \in FrozenNames :
              a_recv[n] = IF a_kw[n] # <<>> THEN a_kw[n] ELSE a_last[n]

====
